---- MODULE Spec2Model ----
(***************************************************************************)
(* A model of rustdesk_cleaner.py: one run of main().  The run retrieves   *)
(* the device list page by page (view), then applies the selected command  *)
(* to every retrieved device in order.  The registry server is the         *)
(* environment: it holds an ordered device list, serves it in pages, and   *)
(* answers every request with a status and a body of its own choosing.     *)
(*                                                                         *)
(* Encoding conventions                                                    *)
(*   - an optional value (Python None or a value) is <<>> or <<v>>;        *)
(*   - a string handled by the assign parser is a sequence of tokens, a    *)
(*     token being either "=" or a maximal run of other characters;        *)
(*   - instants are integers, in milliseconds;                             *)
(*   - a device field that may be absent, null, empty or set carries a tag.*)
(***************************************************************************)
EXTENDS Integers, Sequences, FiniteSets, TLC

\* ------------------------------------------------------------------------
\* Bounds of the model
\* ------------------------------------------------------------------------
\* longest server list built from arbitrary core device kinds
MaxDevices == 2
\* number of full pages held by the paged server lists
MaxFullPages == 1

\* ------------------------------------------------------------------------
\* Program constants
\* ------------------------------------------------------------------------
pageSize == 100

valid_types ==
    {"ab", "strategy_name", "user_name", "device_group_name", "note",
     "device_username", "device_name"}

Commands == {"view", "disable", "enable", "delete", "assign"}

\* ------------------------------------------------------------------------
\* Time
\* ------------------------------------------------------------------------
Second == 1000
Day == 24 * 60 * 60 * Second

\* datetime.strptime(last_online_str.split(".")[0], "%Y-%m-%dT%H:%M:%S"):
\* the fraction after the "." is cut off, the rest is read to the second.
strptime(ms) == (ms \div Second) * Second

\* timedelta.days: the number of whole days, rounded towards minus infinity.
days(delta) == delta \div Day

\* ------------------------------------------------------------------------
\* Devices
\* ------------------------------------------------------------------------
LoAbsent == [tag |-> "absent", ms |-> 0]
LoNull == [tag |-> "null", ms |-> 0]
LoEmpty == [tag |-> "empty", ms |-> 0]
LoAt(ms) == [tag |-> "ts", ms |-> ms]

GrpAbsent == [tag |-> "absent", name |-> ""]
GrpNull == [tag |-> "null", name |-> ""]
GrpStr(s) == [tag |-> "str", name |-> s]

Device(n, grp, lo) ==
    [guid |-> <<"guid", n>>, id |-> <<"id", n>>,
     device_group_name |-> grp, last_online |-> lo]

\* device.get(key): an absent key and a null value both read as None.
get(field) ==
    IF field.tag \in {"absent", "null"} THEN [field EXCEPT !.tag = "none"] ELSE field

\* Python truthiness of what get returns: None and "" are false.
truthy_group(v) == v.tag = "str" /\ v.name # ""
truthy_last_online(v) == v.tag = "ts"


\* ------------------------------------------------------------------------
\* view: the local filters (applied to every device of a page)
\* ------------------------------------------------------------------------
\* (The slip of `<=` for `<` in the comparison of the days.)
offline_skip_M(device, offline_days, utcnow) ==
    /\ offline_days # <<>>
    /\ LET last_online_str == get(device.last_online)
       IN  \/ ~truthy_last_online(last_online_str)
           \/ days(utcnow - strptime(last_online_str.ms)) <= offline_days[1]
\* 1. Filter by offline duration: TRUE when the device is skipped.
offline_skip(device, offline_days, utcnow) ==
    /\ offline_days # <<>>
    /\ LET last_online_str == get(device.last_online)
       IN  \/ ~truthy_last_online(last_online_str)
           \/ days(utcnow - strptime(last_online_str.ms)) < offline_days[1]

\* (The slip of taking an empty group name for a group.)
group_skip_M(device, no_group) ==
    no_group /\ get(device.device_group_name).tag = "str"
\* 2. Filter by group membership: TRUE when the device is skipped.
group_skip(device, no_group) ==
    no_group /\ truthy_group(get(device.device_group_name))

filter_page(data, offline_days, no_group, utcnow) ==
    LET kept(device) ==
            IF offline_skip(device, offline_days, utcnow) THEN FALSE
            ELSE IF group_skip(device, no_group) THEN FALSE
            ELSE TRUE
    IN  SelectSeq(data, kept)

\* Check if we've reached the end of the list.
\* (The slip of `>` for `>=`.)
page_done_M2(len_data, current, total) ==
    len_data < pageSize \/ current * pageSize > total
\* (The slip of `and` for `or`.)
page_done_M(len_data, current, total) ==
    len_data < pageSize /\ current * pageSize >= total
page_done(len_data, current, total) ==
    len_data < pageSize \/ current * pageSize >= total

\* response_json.get("total", 0)
get_total(total) == IF total = <<>> THEN 0 ELSE total[1]

\* ------------------------------------------------------------------------
\* The registry server
\* ------------------------------------------------------------------------
Min(a, b) == IF a < b THEN a ELSE b

\* The data of page n (1-indexed) of the list the server holds.
ServerPage(list, n) ==
    SubSeq(list, (n - 1) * pageSize + 1, Min(n * pageSize, Len(list)))

\* What a listing request can be answered with; the data of a good answer
\* is the page asked for, the reported total is whatever the server says:
\* nothing, the true count, one too few, or far too many (for a list of
\* less than a page, whose only page is short whatever the total is: the
\* true count or far too many).
TotalInputs(list) ==
    IF Len(list) < pageSize
    THEN {<<Len(list)>>, <<Len(list) + 10 * pageSize>>}
    ELSE {<<>>, <<Len(list)>>, <<Len(list) + 10 * pageSize>>, <<Len(list) - 1>>}

ListResponses(list) ==
    {[status |-> 500, body |-> "text", total |-> <<>>],
     [status |-> 200, body |-> "text", total |-> <<>>],
     [status |-> 200, body |-> "json_error", total |-> <<>>]}
        \cup {[status |-> 200, body |-> "json", total |-> t] : t \in TotalInputs(list)}

\* What a disable, enable, delete or assign request can be answered with.
ActionResponses ==
    {[status |-> 500, body |-> "text"],
     [status |-> 200, body |-> "json"],
     [status |-> 200, body |-> "json_error"],
     [status |-> 200, body |-> "text"]}

NoResponse == [status |-> 0, body |-> "none"]


\* ------------------------------------------------------------------------
\* check: what a response to a disable, enable, delete or assign call does
\* ------------------------------------------------------------------------
\* "exit" when check prints the error and calls exit(1), "return" otherwise
\* (the parsed JSON, or the body text when the body is no JSON).
\* (The slip of not looking for the error field.)
check_M(response) ==
    IF response.status # 200 THEN "exit" ELSE "return"
check(response) ==
    IF response.status # 200 THEN "exit"
    ELSE IF response.body = "json_error" THEN "exit"
    ELSE "return"

\* The text check prints before exit(1).
check_print(response) ==
    IF response.status # 200 THEN "Error: HTTP" ELSE "Error:"

\* ------------------------------------------------------------------------
\* main: the assign specification "<type>=<value>"
\* ------------------------------------------------------------------------
\* "=" in args.assign_to
has_eq(str) == \E k \in 1..Len(str) : str[k] = "="

first_eq(str) == CHOOSE k \in 1..Len(str) : str[k] = "=" /\ \A j \in 1..(k - 1) : str[j] # "="

\* type, value = args.assign_to.split("=", 1)
split_type(str) == SubSeq(str, 1, first_eq(str) - 1)
split_value(str) == SubSeq(str, first_eq(str) + 1, Len(str))

\* type not in valid_types (a type is one of the names only as a single token)
type_valid(type) == Len(type) = 1 /\ type[1] \in valid_types

\* Safety check for multiple devices
\* (The slips of `> 2` for `> 1`, of not exempting dry_run, and of `>= 1`
\* for `> 1`.)
batch_guard_M3(n_devices, yes, dry_run) == n_devices >= 1 /\ ~yes /\ ~dry_run
batch_guard_M(n_devices, yes, dry_run) == n_devices > 2 /\ ~yes /\ ~dry_run
batch_guard_M2(n_devices, yes, dry_run) == n_devices > 1 /\ ~yes
batch_guard(n_devices, yes, dry_run) == n_devices > 1 /\ ~yes /\ ~dry_run


\* ------------------------------------------------------------------------
\* Inputs of a run
\* ------------------------------------------------------------------------
\* The instant the timestamps below are measured from, and the clock.  The
\* clock is read once per device (datetime.utcnow()); a run is short, and
\* the model reads the same instant every time.
T0 == Day
NowInputs == {T0 + 3 * Day}

\* last_online: missing, null, "", or a timestamp: 3 days and 1 second
\* before now, 2 days 23 hours 59 minutes before now, exactly 3 days before
\* now, 2 days 23:59:59.5 before now (a timestamp with a fraction), 4 days
\* before now, and one day after now.
LoSeq ==
    <<LoAt(T0 - Second), LoAt(T0 + 60 * Second), LoAbsent, LoAt(T0 + 500),
      LoEmpty, LoAt(T0), LoNull, LoAt(T0 - Day), LoAt(T0 + 4 * Day)>>
GrpSeq == <<GrpAbsent, GrpStr("group1"), GrpStr(""), GrpNull>>

Range(f) == {f[x] : x \in DOMAIN f}
LoInputs == Range(LoSeq)
GrpInputs == Range(GrpSeq)

\* The kinds the longer lists are built from: an ungrouped device long
\* offline, a grouped one long offline, an ungrouped one seen recently.
CoreKinds ==
    {<<GrpAbsent, LoAt(T0 - Second)>>, <<GrpStr("group1"), LoAt(T0 - Day)>>,
     <<GrpStr(""), LoAt(T0 + 60 * Second)>>}

\* Device number n of a list of whole pages: the first and the last device
\* of every page are ungrouped (absent, "", null in rotation), the first
\* long offline and the last seen recently; all others are in a group.
PagedDevice(n) ==
    IF n % pageSize = 1
    THEN Device(n, GrpSeq[2 * ((n \div pageSize) % 2) + 1], LoAt(T0 - Second))
    ELSE IF n % pageSize = 0
    THEN Device(n, GrpSeq[((n \div pageSize) % 2) + 3], LoAt(T0 + 60 * Second))
    ELSE Device(n, GrpStr("group1"), LoSeq[(n % Len(LoSeq)) + 1])

SmallServerInputs ==
    \* a single device of every kind
    {<<Device(1, g, l)>> : g \in GrpInputs, l \in LoInputs}
    \* every list of up to MaxDevices devices of the core kinds
    \cup UNION {{[n \in 1..len |-> Device(n, ks[n][1], ks[n][2])] :
                    ks \in [1..len -> CoreKinds]} : len \in 0..MaxDevices}

\* lists of whole pages, and of whole pages and one device more
PagedServerInputs ==
    {[n \in 1..(k * pageSize + more) |-> PagedDevice(n)] :
        k \in 1..MaxFullPages, more \in {0, 1}}

ServerInputs == SmallServerInputs \cup PagedServerInputs

\* assign_to: not given, "note=v", "bogus=v", "note" (no "="), "=v" (empty
\* type), "note=v=v" (the value holds a "=").
AssignToInputs ==
    {<<>>, <<<<"note", "=", "v">>>>, <<<<"bogus", "=", "v">>>>, <<<<"note">>>>,
     <<<<"=", "v">>>>, <<<<"note", "=", "v", "=", "v">>>>}

OfflineDaysInputs == {<<>>, <<0>>, <<3>>}

\* The configuration defaults of the options a command does not read.
DELETE_UNGROUPED == TRUE
ONLY_DISABLE == FALSE
DISABLE_BEFORE_DELETE == TRUE

\* --assign_to is drawn for assign, the two delete options for delete, and
\* only_disable for view as well.
ArgsInputs ==
    {a \in [command : Commands, dry_run : BOOLEAN, yes : BOOLEAN,
            only_disable : BOOLEAN, disable_before_delete : BOOLEAN,
            assign_to : AssignToInputs, offline_days : OfflineDaysInputs,
            no_group : BOOLEAN] :
        /\ a.command # "assign" => a.assign_to = <<>>
        /\ a.command \notin {"delete", "view"} => a.only_disable = ONLY_DISABLE
        /\ a.command # "delete" => a.disable_before_delete = DISABLE_BEFORE_DELETE}

\* ------------------------------------------------------------------------
\* State
\* ------------------------------------------------------------------------
VARIABLES
    args,       \* the parsed command line
    utcnow,     \* the clock
    server,     \* the list of devices the server holds for the query
    pc,         \* "view", "main", "loop", "done" (main returned),
                \* "exit" (exit(1)), "ValueError" and "TypeError" (uncaught)
    current,    \* view: the page number last requested
    devices,    \* view: the devices kept so far; main: the retrieved list
    i,          \* main: index of the device the loop is at
    phase,      \* main, delete: the call the device is waiting for
    response,   \* main: the last response check returned
    calls,      \* every request sent so far, in order
    log,        \* every logger call so far, in order
    stdout,     \* every print so far, in order
    answers,    \* every listing response received so far, in order
    run,        \* 1 in the first run of the request, 2 when it is run again
    first       \* what the first run ended with (see run_again)

vars == <<args, utcnow, server, pc, current, devices, i, phase, response,
          calls, log, stdout, answers, run, first>>

\* Before there has been a first run.
NoRun == [pc |-> "none", log |-> <<>>, calls |-> <<>>, stdout |-> <<>>,
          answers |-> <<>>]

Init ==
    /\ args \in ArgsInputs
    /\ utcnow \in NowInputs
    /\ server \in ServerInputs
    \* the lists of whole pages are queried as the shipped configuration
    \* does (DELETE_UNGROUPED = True): ungrouped devices only
    /\ server \in PagedServerInputs => args.no_group = DELETE_UNGROUPED
    /\ pc = "view"
    /\ current = 0
    /\ devices = <<>>
    /\ i = 0
    /\ phase = "disable"
    /\ response = NoResponse
    /\ calls = <<>>
    /\ log = <<>>
    /\ stdout = <<>>
    /\ answers = <<>>
    /\ run = 1
    /\ first = NoRun


\* ------------------------------------------------------------------------
\* Records of what the run does
\* ------------------------------------------------------------------------
\* What the server answered, as the server means it: an HTTP error, an
\* application error (status 200, an "error" field), or no error.
ErrorOf(resp) ==
    IF resp.status # 200 THEN "http"
    ELSE IF resp.body = "json_error" THEN "app"
    ELSE "none"

Call(op, target, resp) == [op |-> op, target |-> target, error |-> ErrorOf(resp)]
Entry(msg, id) == [msg |-> msg, id |-> id]
Out(text, id) == [text |-> text, id |-> id]
NoId == <<>>

MutatingOps == {"disable", "enable", "delete", "assign"}

\* ------------------------------------------------------------------------
\* view: one turn of the paging loop
\* ------------------------------------------------------------------------
\* How view takes a listing response: "exit" (the error is printed, exit(1)),
\* "raise" (response.json() raises on a body that is no JSON), or "data".
\* (The slip of not looking for the error field.)
view_check_M(resp) ==
    IF resp.status # 200 THEN "exit"
    ELSE IF resp.body = "text" THEN "raise"
    ELSE "data"
view_check(resp) ==
    IF resp.status # 200 THEN "exit"
    ELSE IF resp.body = "text" THEN "raise"
    ELSE IF resp.body = "json_error" THEN "exit"
    ELSE "data"

\* response_json.get("data", []): an error payload carries no data.
get_data(resp, page) == IF resp.body = "json" THEN page ELSE <<>>

view ==
    /\ pc = "view"
    /\ current < MaxFullPages + 2
    /\ \E resp \in ListResponses(server) :
        LET n == current + 1
            data == get_data(resp, ServerPage(server, n))
            taken == view_check(resp)
        IN  \* run again, the request meets the server it met the first time
            /\ run = 2 => resp = first.answers[n]
            /\ answers' = Append(answers, resp)
            /\ current' = n
            /\ calls' = Append(calls, Call("list", <<"page", n, pageSize>>, resp))
            /\ stdout' = IF taken = "exit"
                         THEN Append(stdout, Out(check_print(resp), NoId))
                         ELSE stdout
            /\ devices' = IF taken = "data"
                          THEN devices \o filter_page(data, args.offline_days,
                                                      args.no_group, utcnow)
                          ELSE devices
            /\ pc' = IF taken = "exit" THEN "exit"
                     ELSE IF taken = "raise" THEN "ValueError"
                     ELSE IF page_done(Len(data), n, get_total(resp.total)) THEN "main"
                     ELSE "view"
    /\ UNCHANGED <<args, utcnow, server, run, first, i, phase, response, log>>

\* ------------------------------------------------------------------------
\* main: after view has returned
\* ------------------------------------------------------------------------
print_all(ds) == [k \in 1..Len(ds) |-> Out("device", ds[k].id)]

\* command == "view": print every device.
main_view ==
    /\ pc = "main"
    /\ args.command = "view"
    /\ stdout' = stdout \o print_all(devices)
    /\ pc' = "done"
    /\ UNCHANGED <<args, utcnow, server, answers, run, first, current, devices, i, phase, response,
                   calls, log>>

\* (The slip of putting the safety check before the view command.)
main_guard_M ==
    /\ pc = "main"
    /\ batch_guard(Len(devices), args.yes, args.dry_run)
    /\ log' = Append(log, Entry("confirmation_required", NoId))
    /\ stdout' = Append(stdout, Out("Found devices. Use --yes", NoId))
    /\ pc' = "done"
    /\ UNCHANGED <<args, utcnow, server, answers, run, first, current, devices, i, phase, response, calls>>

\* Safety check for multiple devices: warn and return.
main_guard ==
    /\ pc = "main"
    /\ args.command \in MutatingOps
    /\ batch_guard(Len(devices), args.yes, args.dry_run)
    /\ log' = Append(log, Entry("confirmation_required", NoId))
    /\ stdout' = Append(stdout, Out("Found devices. Use --yes", NoId))
    /\ pc' = "done"
    /\ UNCHANGED <<args, utcnow, server, answers, run, first, current, devices, i, phase, response, calls>>

\* Where the loop over the devices starts (or ends at once on an empty list).
loop_pc(n) == IF n > Len(devices) THEN "done" ELSE "loop"

\* disable, enable, delete: the safety check passes, the loop is entered.
main_enter ==
    /\ pc = "main"
    /\ args.command \in {"disable", "enable", "delete"}
    /\ ~batch_guard(Len(devices), args.yes, args.dry_run)
    /\ i' = 1
    /\ pc' = loop_pc(1)
    /\ UNCHANGED <<args, utcnow, server, answers, run, first, current, devices, phase, response, calls,
                   log, stdout>>

\* (The slip of making the "=" test in a real run only.)
main_assign_split_M ==
    /\ pc = "main"
    /\ args.command = "assign"
    /\ ~batch_guard(Len(devices), args.yes, args.dry_run)
    /\ IF args.assign_to = <<>>
       THEN pc' = "TypeError" /\ UNCHANGED <<i, log>>
       ELSE IF ~args.dry_run /\ ~has_eq(args.assign_to[1])
       THEN /\ log' = Append(log, Entry("invalid_assign_to_format", NoId))
            /\ pc' = "done"
            /\ UNCHANGED i
       ELSE /\ i' = 1
            /\ pc' = loop_pc(1)
            /\ UNCHANGED log
    /\ UNCHANGED <<args, utcnow, server, answers, run, first, current, devices, phase, response, calls,
                   stdout>>

\* assign: the safety check passes, then the "=" test on assign_to.  With
\* no --assign_to the test `"=" in None` raises TypeError.
main_assign_split ==
    /\ pc = "main"
    /\ args.command = "assign"
    /\ ~batch_guard(Len(devices), args.yes, args.dry_run)
    /\ IF args.assign_to = <<>>
       THEN pc' = "TypeError" /\ UNCHANGED <<i, log>>
       ELSE IF ~has_eq(args.assign_to[1])
       THEN /\ log' = Append(log, Entry("invalid_assign_to_format", NoId))
            /\ pc' = "done"
            /\ UNCHANGED i
       ELSE /\ i' = 1
            /\ pc' = loop_pc(1)
            /\ UNCHANGED log
    /\ UNCHANGED <<args, utcnow, server, answers, run, first, current, devices, phase, response, calls,
                   stdout>>


\* ------------------------------------------------------------------------
\* main: one device of the loop
\* ------------------------------------------------------------------------
\* A command of one call per device (disable, enable): dry run logs the
\* simulated entry; otherwise the function prints, sends the request and
\* hands the response to check, and main logs what check returned.
\* (The slip of sending the request in a dry run as well.)
one_call_M(op, dry_msg, done_msg, text) ==
    LET device == devices[i]
    IN  \E resp \in ActionResponses :
        /\ calls' = Append(calls, Call(op, device.guid, resp))
        /\ response' = resp
        /\ IF check(resp) = "exit"
           THEN /\ stdout' = stdout \o <<Out(text, device.id),
                                         Out(check_print(resp), NoId)>>
                /\ pc' = "exit"
                /\ UNCHANGED <<i, log>>
           ELSE /\ stdout' = Append(stdout, Out(text, device.id))
                /\ log' = Append(log, Entry(IF args.dry_run THEN dry_msg
                                            ELSE done_msg, device.id))
                /\ i' = i + 1
                /\ pc' = loop_pc(i + 1)
one_call(op, dry_msg, done_msg, text) ==
    LET device == devices[i]
    IN  IF args.dry_run
        THEN /\ log' = Append(log, Entry(dry_msg, device.id))
             /\ i' = i + 1
             /\ pc' = loop_pc(i + 1)
             /\ UNCHANGED <<response, calls, stdout>>
        ELSE \E resp \in ActionResponses :
             /\ calls' = Append(calls, Call(op, device.guid, resp))
             /\ response' = resp
             /\ IF check(resp) = "exit"
                THEN /\ stdout' = stdout \o <<Out(text, device.id),
                                              Out(check_print(resp), NoId)>>
                     /\ pc' = "exit"
                     /\ UNCHANGED <<i, log>>
                ELSE /\ stdout' = Append(stdout, Out(text, device.id))
                     /\ log' = Append(log, Entry(done_msg, device.id))
                     /\ i' = i + 1
                     /\ pc' = loop_pc(i + 1)

main_disable ==
    /\ pc = "loop"
    /\ args.command = "disable"
    /\ one_call("disable", "dry_run_disable", "disabled", "Disable")
    /\ UNCHANGED <<args, utcnow, server, answers, run, first, current, devices, phase>>

main_enable ==
    /\ pc = "loop"
    /\ args.command = "enable"
    /\ one_call("enable", "dry_run_enable", "enabled", "Enable")
    /\ UNCHANGED <<args, utcnow, server, answers, run, first, current, devices, phase>>

\* delete, first call of a device: dry run logs one simulated entry;
\* otherwise the device is disabled, whatever disable_before_delete says.
delete_first_call ==
    /\ pc = "loop"
    /\ args.command = "delete"
    /\ phase = "disable"
    /\ LET device == devices[i]
       IN  IF args.dry_run
           THEN /\ log' = Append(log, Entry(IF args.only_disable
                                            THEN "dry_run_disable"
                                            ELSE "dry_run_disable_and_delete",
                                            device.id))
                /\ i' = i + 1
                /\ pc' = loop_pc(i + 1)
                /\ UNCHANGED <<phase, response, calls, stdout>>
           ELSE \E resp \in ActionResponses :
                /\ calls' = Append(calls, Call("disable", device.guid, resp))
                /\ response' = resp
                /\ IF check(resp) = "exit"
                   THEN /\ log' = Append(log, Entry("processing", device.id))
                        /\ stdout' = stdout \o <<Out("Disable", device.id),
                                                 Out(check_print(resp), NoId)>>
                        /\ pc' = "exit"
                        /\ UNCHANGED <<i, phase>>
                   ELSE /\ stdout' = Append(stdout, Out("Disable", device.id))
                        /\ IF args.only_disable
                           THEN /\ log' = log \o <<Entry("processing", device.id),
                                                   Entry("disable_response", device.id),
                                                   Entry("skipping_deletion", device.id)>>
                                /\ i' = i + 1
                                /\ pc' = loop_pc(i + 1)
                                /\ UNCHANGED phase
                           ELSE /\ log' = log \o <<Entry("processing", device.id),
                                                   Entry("disable_response", device.id),
                                                   Entry("proceeding_to_delete", device.id)>>
                                /\ phase' = "delete"
                                /\ UNCHANGED <<i, pc>>
    /\ UNCHANGED <<args, utcnow, server, answers, run, first, current, devices>>

\* The slip of going on to the deletion although only_disable is set.
main_delete_disable_M2 ==
    IF pc = "loop" /\ args.command = "delete" /\ phase = "disable"
       /\ ~args.dry_run /\ args.only_disable
    THEN /\ \E resp \in ActionResponses :
              /\ calls' = Append(calls, Call("disable", devices[i].guid, resp))
              /\ response' = resp
              /\ IF check(resp) = "exit"
                 THEN pc' = "exit" /\ UNCHANGED phase
                 ELSE phase' = "delete" /\ UNCHANGED pc
         /\ log' = Append(log, Entry("processing", devices[i].id))
         /\ stdout' = Append(stdout, Out("Disable", devices[i].id))
         /\ UNCHANGED <<args, utcnow, server, answers, run, first, current, devices, i>>
    ELSE delete_first_call

\* The slip of disabling only when disable_before_delete is set.
main_delete_disable_M ==
    IF pc = "loop" /\ args.command = "delete" /\ phase = "disable"
       /\ ~args.dry_run /\ ~args.only_disable /\ ~args.disable_before_delete
    THEN /\ log' = Append(log, Entry("proceeding_to_delete", devices[i].id))
         /\ phase' = "delete"
         /\ UNCHANGED <<args, utcnow, server, answers, run, first, current, devices, i, pc, response,
                        calls, stdout>>
    ELSE delete_first_call
main_delete_disable == delete_first_call

\* (The slip of dropping a deleted device from the list being walked.)
main_delete_delete_M2 ==
    /\ pc = "loop"
    /\ args.command = "delete"
    /\ phase = "delete"
    /\ LET device == devices[i]
       IN  \E resp \in ActionResponses :
           /\ calls' = Append(calls, Call("delete", device.guid, resp))
           /\ response' = resp
           /\ IF check(resp) = "exit"
              THEN /\ stdout' = stdout \o <<Out("Delete", device.id),
                                            Out(check_print(resp), NoId)>>
                   /\ pc' = "exit"
                   /\ UNCHANGED <<i, phase, log, devices>>
              ELSE /\ stdout' = Append(stdout, Out("Delete", device.id))
                   /\ log' = Append(log, Entry("delete_response", device.id))
                   /\ phase' = "disable"
                   /\ devices' = SubSeq(devices, 1, i - 1)
                                   \o SubSeq(devices, i + 1, Len(devices))
                   /\ i' = i
                   /\ pc' = IF i > Len(devices) - 1 THEN "done" ELSE "loop"
    /\ UNCHANGED <<args, utcnow, server, answers, run, first, current>>
\* (The slip of sending a failed deletion again instead of exiting.)
main_delete_delete_M ==
    /\ pc = "loop"
    /\ args.command = "delete"
    /\ phase = "delete"
    /\ LET device == devices[i]
       IN  \E resp \in ActionResponses :
           /\ calls' = Append(calls, Call("delete", device.guid, resp))
           /\ response' = resp
           /\ stdout' = Append(stdout, Out("Delete", device.id))
           /\ IF check(resp) = "exit"
              THEN UNCHANGED <<i, phase, log, pc>>
              ELSE /\ log' = Append(log, Entry("delete_response", device.id))
                   /\ phase' = "disable"
                   /\ i' = i + 1
                   /\ pc' = loop_pc(i + 1)
    /\ UNCHANGED <<args, utcnow, server, answers, run, first, current, devices>>
\* delete, second call of a device: the deletion itself.
main_delete_delete ==
    /\ pc = "loop"
    /\ args.command = "delete"
    /\ phase = "delete"
    /\ LET device == devices[i]
       IN  \E resp \in ActionResponses :
           /\ calls' = Append(calls, Call("delete", device.guid, resp))
           /\ response' = resp
           /\ IF check(resp) = "exit"
              THEN /\ stdout' = stdout \o <<Out("Delete", device.id),
                                            Out(check_print(resp), NoId)>>
                   /\ pc' = "exit"
                   /\ UNCHANGED <<i, phase, log>>
              ELSE /\ stdout' = Append(stdout, Out("Delete", device.id))
                   /\ log' = Append(log, Entry("delete_response", device.id))
                   /\ phase' = "disable"
                   /\ i' = i + 1
                   /\ pc' = loop_pc(i + 1)
    /\ UNCHANGED <<args, utcnow, server, answers, run, first, current, devices>>

\* assign: dry run logs the simulated assignment without looking at the
\* type.  Otherwise assign prints, and on a type outside valid_types prints
\* the list of types and returns None with no request sent, which main logs
\* as an assignment like any other returned value.
main_assign ==
    /\ pc = "loop"
    /\ args.command = "assign"
    /\ LET device == devices[i]
           type == split_type(args.assign_to[1])
       IN  IF args.dry_run
           THEN /\ log' = Append(log, Entry("dry_run_assign", device.id))
                /\ i' = i + 1
                /\ pc' = loop_pc(i + 1)
                /\ UNCHANGED <<response, calls, stdout>>
           ELSE IF ~type_valid(type)
           THEN /\ stdout' = stdout \o <<Out("assign", device.id),
                                         Out("Invalid type", NoId)>>
                /\ response' = NoResponse
                /\ log' = Append(log, Entry("assigned", device.id))
                /\ i' = i + 1
                /\ pc' = loop_pc(i + 1)
                /\ UNCHANGED calls
           ELSE \E resp \in ActionResponses :
                /\ calls' = Append(calls, Call("assign", device.guid, resp))
                /\ response' = resp
                /\ IF check(resp) = "exit"
                   THEN /\ stdout' = stdout \o <<Out("assign", device.id),
                                                 Out(check_print(resp), NoId)>>
                        /\ pc' = "exit"
                        /\ UNCHANGED <<i, log>>
                   ELSE /\ stdout' = Append(stdout, Out("assign", device.id))
                        /\ log' = Append(log, Entry("assigned", device.id))
                        /\ i' = i + 1
                        /\ pc' = loop_pc(i + 1)
    /\ UNCHANGED <<args, utcnow, server, answers, run, first, current, devices, phase>>

\* The same request is run a second time (python3 rustdesk_cleaner.py ...
\* once more): a new process, nothing kept from the first but what the
\* first is remembered by here.  Only dry runs are run again.
run_again ==
    /\ run = 1
    /\ args.dry_run
    /\ pc \in {"done", "exit", "ValueError", "TypeError"}
    /\ first' = [pc |-> pc, log |-> log, calls |-> calls, stdout |-> stdout,
                 answers |-> answers]
    /\ run' = 2
    /\ pc' = "view"
    /\ current' = 0
    /\ devices' = <<>>
    /\ i' = 0
    /\ phase' = "disable"
    /\ response' = NoResponse
    /\ calls' = <<>>
    /\ log' = <<>>
    /\ stdout' = <<>>
    /\ answers' = <<>>
    /\ UNCHANGED <<args, utcnow, server>>

Next ==
    \/ view
    \/ main_view
    \/ main_guard
    \/ main_enter
    \/ main_assign_split
    \/ main_disable
    \/ main_enable
    \/ main_delete_disable
    \/ main_delete_delete
    \/ main_assign

Spec == Init /\ [][Next]_vars

\* The run is a sequential program: a step that can be taken is taken.
FairSpec == Spec /\ WF_vars(Next)

\* The request and, for a dry run, the same request once more.
NextTwice ==
    \/ Next
    \/ run_again

TwiceSpec == Init /\ [][NextTwice]_vars


\* ========================================================================
\* Properties
\* ========================================================================
Last(seq) == seq[Len(seq)]

\* view has returned its list to main.
ViewReturned ==
    \/ pc \in {"main", "loop", "done", "TypeError"}
    \/ pc = "exit" /\ Last(calls).op # "list"

\* The requests of the run that change something on the server.
MutatingCalls == SelectSeq(calls, LAMBDA c : c.op \in MutatingOps)

\* ------------------------------------------------------------------------
\* C1: under delete with dry_run and only_disable off, and for either value
\* of disable_before_delete, every delete request for a guid comes after a
\* disable request for the same guid that has returned in this run.
C1_DisableBeforeDelete ==
    (args.command = "delete" /\ ~args.dry_run /\ ~args.only_disable) =>
        \A k \in 1..Len(calls) :
            calls[k].op = "delete" =>
                \E j \in 1..(k - 1) :
                    /\ calls[j].op = "disable"
                    /\ calls[j].target = calls[k].target

\* A device has been deleted in a run with disable_before_delete off.
C1_Witness ==
    /\ ~args.disable_before_delete
    /\ \E k \in 1..Len(calls) : calls[k].op = "delete" /\ calls[k].error = "none"

\* ------------------------------------------------------------------------
\* C2: with more than one device retrieved, auto_confirm off and dry_run
\* off, each of disable, enable, delete and assign ends with the
\* confirmation-required outcome and sends no request that changes anything.
C2_BatchGuard ==
    (/\ ViewReturned
     /\ Len(devices) > 1 /\ ~args.yes /\ ~args.dry_run
     /\ args.command \in MutatingOps) =>
        /\ MutatingCalls = <<>>
        /\ pc \in {"main", "done"}
        /\ pc = "done" => log = <<Entry("confirmation_required", NoId)>>

\* The guard has tripped on two devices or more.
C2_Witness ==
    /\ pc = "done"
    /\ Len(devices) > 1 /\ ~args.yes /\ ~args.dry_run
    /\ args.command = "assign"
    /\ log = <<Entry("confirmation_required", NoId)>>

\* ------------------------------------------------------------------------
\* C3: with dry_run on, no command sends a request that changes anything,
\* and the log holds exactly one simulated entry per retrieved device, in
\* retrieval order ("disable" or "disable and delete" for delete).
dry_run_msg ==
    CASE args.command = "disable" -> "dry_run_disable"
      [] args.command = "enable" -> "dry_run_enable"
      [] args.command = "delete" ->
            IF args.only_disable THEN "dry_run_disable" ELSE "dry_run_disable_and_delete"
      [] OTHER -> "dry_run_assign"

SimulatedEntries(n) == [k \in 1..n |-> Entry(dry_run_msg, devices[k].id)]

\* The simulated entries of the log, in order.
SimulatedLog ==
    SelectSeq(log, LAMBDA e : e.msg \in {"dry_run_disable", "dry_run_enable",
                                         "dry_run_disable_and_delete",
                                         "dry_run_assign"})

\* As claimed: for every request, the assign specification included.
C3_DryRunAsClaimed ==
    (args.dry_run /\ args.command \in MutatingOps) =>
        /\ MutatingCalls = <<>>
        /\ pc = "loop" => SimulatedLog = SimulatedEntries(i - 1)
        /\ pc = "done" => SimulatedLog = SimulatedEntries(Len(devices))

\* As amended: for assign, when --assign_to is given and holds a "=".
C3_DryRun ==
    (/\ args.dry_run /\ args.command \in MutatingOps
     /\ args.command = "assign" =>
            args.assign_to # <<>> /\ \E k \in 1..Len(args.assign_to[1]) :
                                        args.assign_to[1][k] = "=") =>
        /\ MutatingCalls = <<>>
        /\ pc = "loop" => SimulatedLog = SimulatedEntries(i - 1)
        /\ pc = "done" => SimulatedLog = SimulatedEntries(Len(devices))

\* A dry run has ended over two devices or more, unconfirmed.
C3_Witness ==
    /\ args.dry_run /\ ~args.yes
    /\ args.command = "delete" /\ ~args.only_disable
    /\ pc = "done"
    /\ Len(devices) > 1
    /\ SimulatedLog = SimulatedEntries(Len(devices))

\* ------------------------------------------------------------------------
\* C4: assign with a type outside the seven names is rejected as a whole:
\* no request is sent, no device gets an assignment entry, simulated or
\* real, with dry_run on or off.
InvalidTypeGiven ==
    /\ args.command = "assign"
    /\ args.assign_to # <<>>
    /\ \E k \in 1..Len(args.assign_to[1]) :
        /\ args.assign_to[1][k] = "="
        /\ \A j \in 1..(k - 1) : args.assign_to[1][j] # "="
        /\ SubSeq(args.assign_to[1], 1, k - 1) \notin {<<t>> : t \in valid_types}

C4_InvalidTypeRejected ==
    InvalidTypeGiven =>
        /\ MutatingCalls = <<>>
        /\ \A k \in 1..Len(log) : log[k].msg \notin {"dry_run_assign", "assigned"}


\* ------------------------------------------------------------------------
\* What the retrieval claims speak of
\* ------------------------------------------------------------------------
\* The devices of the pages view has asked for.
Fetched == SubSeq(server, 1, Min(current * pageSize, Len(server)))

InDevices(d) == \E k \in 1..Len(devices) : devices[k] = d

\* device_group_name is absent, null or empty.
Ungrouped(d) ==
    \/ d.device_group_name.tag \in {"absent", "null"}
    \/ d.device_group_name.name = ""

\* The whole days from instant t to now (a negative count for a later t).
ElapsedDays(t) == CHOOSE n \in -10..10 : n * Day <= utcnow - t /\ utcnow - t < (n + 1) * Day

\* The instant t with its fraction of a second dropped.
WholeSecond(t) == t - (t % Second)

\* ------------------------------------------------------------------------
\* C5: view returns exactly the post-filter survivors of all the pages the
\* server holds, in server order, whatever total the server reports.
C5_AllPagesRetrieved ==
    ViewReturned =>
        devices = filter_page(server, args.offline_days, args.no_group, utcnow)

\* ------------------------------------------------------------------------
\* C6: the paging loop ends (view returns, exits or raises), whatever total
\* the server reports, the server's list being finite.
C6_ViewTerminates == <>(pc # "view")

\* view has returned after asking for a page beyond the one full page the
\* server holds: the total reported with page 1 was too large.
C6_Witness ==
    /\ pc = "main"
    /\ Len(server) = pageSize
    /\ current = 2

\* ------------------------------------------------------------------------
\* C7: once a disable, enable, delete or assign call has returned a hard
\* error (a status other than 200, or 200 with an error field), the run
\* sends no further request and exits.
C7_FailFast ==
    /\ \A k \in 1..(Len(calls) - 1) :
            calls[k].op \in MutatingOps => calls[k].error = "none"
    /\ (calls # <<>> /\ Last(calls).op \in MutatingOps /\ Last(calls).error # "none")
            => pc = "exit"

\* Under delete the disable call of a device has failed with an application
\* error while another device was still to be processed.
C7_Witness ==
    /\ args.command = "delete"
    /\ pc = "exit"
    /\ Last(calls).op = "disable" /\ Last(calls).error = "app"
    /\ i < Len(devices)

\* ------------------------------------------------------------------------
\* C8: a hard error on a listing page ends the run at that page: no further
\* page is asked for, main never gets a list, nothing is logged or sent.
C8_ListFailFast ==
    \A k \in 1..Len(calls) :
        (calls[k].op = "list" /\ calls[k].error # "none") =>
            /\ k = Len(calls)
            /\ pc = "exit"
            /\ log = <<>>

\* Page 2 has failed with an application error after page 1 had yielded
\* devices, in a confirmed real delete.
C8_Witness ==
    /\ args.command = "delete" /\ ~args.dry_run /\ args.yes
    /\ pc = "exit"
    /\ Len(calls) = 2
    /\ Last(calls).op = "list" /\ Last(calls).error = "app"
    /\ devices # <<>>

\* ------------------------------------------------------------------------
\* C9: with offline_days = N a device is retrieved only if last_online is
\* present and the whole days from last_online to now are at least N; a
\* device with absent or empty last_online is never retrieved; with N = 3 a
\* device last online 3 days 1 second ago is retrieved, one last online
\* 2 days 23 hours 59 minutes ago is not; without offline_days last_online
\* has no effect.
GroupPass(d) == args.no_group => Ungrouped(d)

C9_Boundary(d) ==
    args.offline_days = <<3>> =>
        /\ (d.last_online = LoAt(utcnow - 3 * Day - Second) /\ GroupPass(d))
                => InDevices(d)
        /\ d.last_online = LoAt(utcnow - (2 * Day + (23 * 60 + 59) * 60 * Second))
                => ~InDevices(d)

OfflinePass(d) ==
    args.offline_days # <<>> =>
        /\ d.last_online.tag = "ts"
        /\ ElapsedDays(WholeSecond(d.last_online.ms)) >= args.offline_days[1]

C10_UngroupedFilter ==
    ViewReturned =>
        LET fetched == Fetched IN
        \A k \in 1..Len(fetched) :
            LET d == fetched[k]
            IN  /\ (args.no_group /\ ~Ungrouped(d)) => ~InDevices(d)
                /\ (args.no_group /\ Ungrouped(d)) => (InDevices(d) <=> OfflinePass(d))
                /\ ~args.no_group => (InDevices(d) <=> OfflinePass(d))

\* With no_group and offline_days both set, a device with an empty group
\* name has been retrieved and a grouped device that passes the offline
\* filter has been left out.
C10_Witness ==
    /\ ViewReturned
    /\ args.no_group /\ args.offline_days # <<>>
    /\ \E k \in 1..Len(devices) : devices[k].device_group_name = GrpStr("")
    /\ \E k \in 1..Len(Fetched) :
            /\ ~Ungrouped(Fetched[k])
            /\ OfflinePass(Fetched[k])
            /\ ~InDevices(Fetched[k])


\* ------------------------------------------------------------------------
\* What the execution claims speak of
\* ------------------------------------------------------------------------
\* The number of requests of kind op sent for the device of guid g.
CallCount(op, g) ==
    Cardinality({k \in 1..Len(calls) : calls[k].op = op /\ calls[k].target = g})

\* The entries of the log with message msg, in order.
LogOf(msg) == SelectSeq(log, LAMBDA e : e.msg = msg)

\* The run has ended: main has returned or the process has exited.
Ended == pc \in {"done", "exit", "ValueError", "TypeError"}

\* ------------------------------------------------------------------------
\* C11: under delete with dry_run off and only_disable on, no DELETE request
\* is ever sent and every retrieved device gets exactly one disable request
\* (and ends disabled only, unless that request failed), for any number of
\* devices.
OnlyDisableRun == args.command = "delete" /\ ~args.dry_run /\ args.only_disable

\* As claimed: every retrieved device, whatever the run.
C11_OnlyDisableAsClaimed ==
    OnlyDisableRun =>
        /\ \A k \in 1..Len(calls) : calls[k].op # "delete"
        /\ (Ended /\ ViewReturned) =>
                \A k \in 1..Len(devices) : CallCount("disable", devices[k].guid) = 1

\* As amended: every device when the safety check passes and no call fails;
\* the devices up to the failed one when a call fails; none when the safety
\* check trips.
C11_OnlyDisable ==
    OnlyDisableRun =>
        /\ \A k \in 1..Len(calls) : calls[k].op # "delete"
        /\ (pc = "done" /\ (Len(devices) <= 1 \/ args.yes)) =>
                /\ \A k \in 1..Len(devices) :
                        CallCount("disable", devices[k].guid) = 1
                /\ \A k \in 1..Len(calls) : calls[k].error = "none"
                /\ LogOf("skipping_deletion")
                        = [k \in 1..Len(devices) |->
                                Entry("skipping_deletion", devices[k].id)]
        /\ (pc = "done" /\ Len(devices) > 1 /\ ~args.yes) => MutatingCalls = <<>>
        /\ (pc = "exit" /\ ViewReturned) =>
                /\ Last(calls).error # "none"
                /\ \A k \in 1..Len(devices) :
                        CallCount("disable", devices[k].guid) = IF k <= i THEN 1 ELSE 0

\* A confirmed run of this kind has ended over two devices or more.
C11_Witness ==
    /\ OnlyDisableRun
    /\ pc = "done"
    /\ Len(devices) > 1
    /\ Len(MutatingCalls) = Len(devices)


\* ------------------------------------------------------------------------
\* C12: in a real run without error over devices d1..dn the mutating
\* requests are exactly one per device, in retrieval order, for disable,
\* enable and assign, and exactly disable(d1), delete(d1), disable(d2),
\* delete(d2), ... for delete; nothing for a device before the previous
\* device is done with, nothing twice.
CallPairs ==
    [k \in 1..Len(MutatingCalls) |-> <<MutatingCalls[k].op, MutatingCalls[k].target>>]

OnePerDevice(op) == [k \in 1..Len(devices) |-> <<op, devices[k].guid>>]

TwoPerDevice ==
    [k \in 1..(2 * Len(devices)) |->
        IF k % 2 = 1 THEN <<"disable", devices[(k + 1) \div 2].guid>>
        ELSE <<"delete", devices[k \div 2].guid>>]

IsPrefix(a, b) == Len(a) <= Len(b) /\ a = SubSeq(b, 1, Len(a))

\* A real run of a mutating command that meets none of the error conditions:
\* the safety check passes, the assign specification is well formed and of
\* a valid type.
RealRun ==
    /\ args.command \in MutatingOps
    /\ ~args.dry_run
    /\ ViewReturned
    /\ Len(devices) <= 1 \/ args.yes
    /\ args.command = "assign" =>
            /\ args.assign_to # <<>>
            /\ \E k \in 1..Len(args.assign_to[1]) :
                    /\ args.assign_to[1][k] = "="
                    /\ SubSeq(args.assign_to[1], 1, k - 1) \in {<<t>> : t \in valid_types}

\* As claimed: two requests per device for every delete run.
C12_SequentialAsClaimed ==
    RealRun =>
        LET expected == IF args.command = "delete" THEN TwoPerDevice
                        ELSE OnePerDevice(args.command)
        IN  /\ IsPrefix(CallPairs, expected)
            /\ pc = "done" => CallPairs = expected

\* As amended: one disable request per device for delete under only_disable.
C12_Sequential ==
    RealRun =>
        LET expected == IF args.command = "delete" /\ ~args.only_disable
                        THEN TwoPerDevice
                        ELSE IF args.command = "delete" THEN OnePerDevice("disable")
                        ELSE OnePerDevice(args.command)
        IN  /\ IsPrefix(CallPairs, expected)
            /\ pc = "done" => CallPairs = expected

\* A real delete has ended over two devices or more, four requests or more.
C12_Witness ==
    /\ RealRun
    /\ args.command = "delete" /\ ~args.only_disable
    /\ pc = "done"
    /\ Len(devices) > 1
    /\ CallPairs = TwoPerDevice

\* ------------------------------------------------------------------------
\* C13: a dry run sends no mutating request, and the same dry run made once
\* more against the same server answers at the same time sends none either
\* and ends as the first did, with the same simulated log entries in the
\* same order, for any number of devices.
SimulatedOf(entries) ==
    SelectSeq(entries, LAMBDA e : e.msg \in {"dry_run_disable", "dry_run_enable",
                                             "dry_run_disable_and_delete",
                                             "dry_run_assign"})

MutatingOf(cs) == SelectSeq(cs, LAMBDA c : c.op \in MutatingOps)

C13_DryRunIdempotent ==
    /\ args.dry_run => MutatingCalls = <<>>
    /\ run = 2 => MutatingOf(first.calls) = <<>>
    /\ (run = 2 /\ Ended) =>
            /\ SimulatedLog = SimulatedOf(first.log)
            /\ log = first.log
            /\ stdout = first.stdout
            /\ pc = first.pc

\* The second dry run of a request over several devices has ended, each
\* device with its simulated entry.
C13_Witness ==
    /\ run = 2
    /\ pc = "done"
    /\ Len(devices) > 1
    /\ Len(SimulatedLog) = Len(devices)
    /\ SimulatedLog = SimulatedOf(first.log)

\* ------------------------------------------------------------------------
\* C14: the view command sends listing requests only, whatever dry_run, yes
\* and only_disable are, and the safety check does not stand before it:
\* when it ends, it has printed every retrieved device, in the order of
\* retrieval, and nothing else, also for several devices with yes and
\* dry_run off.
C14_ViewNeverMutates ==
    args.command = "view" =>
        /\ \A k \in 1..Len(calls) : calls[k].op = "list"
        /\ log = <<>>
        /\ pc # "loop"
        /\ pc = "done" =>
                /\ devices = filter_page(Fetched, args.offline_days,
                                         args.no_group, utcnow)
                /\ stdout = [k \in 1..Len(devices) |->
                                Out("device", devices[k].id)]

\* view has printed several devices with yes and dry_run off (only_disable
\* on: it is not looked at).
C14_Witness ==
    /\ args.command = "view"
    /\ ~args.yes
    /\ ~args.dry_run
    /\ args.only_disable
    /\ pc = "done"
    /\ Len(devices) > 1
    /\ Len(stdout) = Len(devices)

\* ------------------------------------------------------------------------
\* C15: every response, to a listing as to a mutating request, is taken the
\* same way; in particular a response of status 200 whose body is no JSON
\* is a success (the text is the payload) and never ends the run, so that
\* a disable answered 200 "OK" is followed by the delete of that device.
TextSuccess(resp) == resp.status = 200 /\ resp.body = "text"

C15_SameClassification ==
    \* a listing answered by text 200 does not end the run
    /\ \A k \in 1..Len(answers) :
            TextSuccess(answers[k]) =>
                ~(k = Len(answers) /\ pc \in {"exit", "ValueError"}
                  /\ Last(calls).op = "list")
    \* a mutating request answered by text 200 does not end the run
    /\ (calls # <<>> /\ Last(calls).op \in MutatingOps /\ TextSuccess(response))
            => pc # "exit"
    \* what is not 200, or carries an error field, ends it, for both
    /\ \A k \in 1..Len(calls) :
            calls[k].error # "none" => (k = Len(calls) /\ pc = "exit")

\* ------------------------------------------------------------------------
\* C16: the listing requests of a run ask for the pages 1, 2, 3, ... in
\* turn, each once, always with pageSize 100; no page is asked for after a
\* page N that held fewer than 100 items or for which N * 100 reaches the
\* total reported with it (0 when none is reported), and when no error
\* occurs retrieval does not end before such a page.
ListCalls == SelectSeq(calls, LAMBDA c : c.op = "list")

ReportedTotal(resp) == IF resp.total = <<>> THEN 0 ELSE resp.total[1]

\* Page n, as it was answered, is one to stop after.
StopsAfter(n) ==
    \/ Len(ServerPage(server, n)) < 100
    \/ n * 100 >= ReportedTotal(answers[n])

C16_Paging ==
    /\ Len(ListCalls) = current
    /\ Len(answers) = current
    /\ \A n \in 1..current : ListCalls[n].target = <<"page", n, 100>>
    /\ \A n \in 1..(current - 1) : ~StopsAfter(n)
    /\ (pc = "view" /\ current > 0) => ~StopsAfter(current)
    /\ ViewReturned => (current > 0 /\ StopsAfter(current))

\* Retrieval has ended after the second page, the first one being whole.
C16_Witness ==
    /\ ViewReturned
    /\ current = 2
    /\ Len(ServerPage(server, 1)) = 100
    /\ ListCalls[2].target = <<"page", 2, 100>>

\* ------------------------------------------------------------------------
\* C17: retrieval is over before execution starts: no listing request is
\* sent after a mutating one, and once view has returned the list of
\* devices is never changed; the mutating requests go to devices of that
\* list, in its order.
DeviceIndex(g) == CHOOSE k \in 1..Len(devices) : devices[k].guid = g

ListingBeforeMutating ==
    \A j \in 1..Len(calls) : \A k \in 1..Len(calls) :
        (j < k /\ calls[j].op \in MutatingOps) => calls[k].op # "list"

InListOrder ==
    /\ \A k \in 1..Len(MutatingCalls) :
            \E d \in 1..Len(devices) : devices[d].guid = MutatingCalls[k].target
    /\ \A j \in 1..Len(MutatingCalls) : \A k \in 1..Len(MutatingCalls) :
            j < k => DeviceIndex(MutatingCalls[j].target)
                        <= DeviceIndex(MutatingCalls[k].target)
    /\ (pc = "loop" /\ MutatingCalls # <<>>) =>
            DeviceIndex(Last(MutatingCalls).target) \in {i - 1, i}

C17_RetrievalFirst ==
    /\ [](ListingBeforeMutating /\ InListOrder)
    /\ [][pc # "view" => devices' = devices]_vars

\* Two pages were listed and the devices kept, more than one, have all
\* been acted on.
C17_Witness ==
    /\ current = 2
    /\ pc = "done"
    /\ Len(devices) > 1
    /\ Len(MutatingCalls) >= Len(devices)
    /\ DeviceIndex(Last(MutatingCalls).target) = Len(devices)

\* ------------------------------------------------------------------------
\* C18: the confirmation-required outcome occurs only for more than one
\* device with yes and dry_run both off: with no or one retrieved device a
\* real disable, enable, delete or assign without yes goes on unprompted (a
\* single device is disabled and deleted), and with yes or dry_run on the
\* check never trips, whatever the number of devices.
Tripped == \E k \in 1..Len(log) : log[k].msg = "confirmation_required"

C18_GuardOnlyForSeveral ==
    /\ Tripped => (Len(devices) > 1 /\ ~args.yes /\ ~args.dry_run)
    \* a single device, no yes: the delete run that ends well has sent both
    \* requests for it
    /\ (/\ args.command = "delete" /\ ~args.dry_run /\ ~args.only_disable
        /\ ~args.yes /\ Len(devices) = 1 /\ pc = "done")
            => [k \in 1..Len(MutatingCalls) |-> MutatingCalls[k].op]
                    = <<"disable", "delete">>
    \* no or one device, no yes: every command reaches its loop or its end
    /\ (/\ args.command \in MutatingOps /\ ~args.dry_run /\ ~args.yes
        /\ Len(devices) <= 1 /\ pc = "done")
            => \A k \in 1..Len(stdout) : stdout[k].text # "Found devices. Use --yes"

\* One device was disabled and deleted with yes and dry_run off.
C18_Witness ==
    /\ args.command = "delete"
    /\ ~args.yes
    /\ ~args.dry_run
    /\ Len(devices) = 1
    /\ pc = "done"
    /\ Len(MutatingCalls) = 2
    /\ ~Tripped

\* ------------------------------------------------------------------------
\* C19: an assign whose assign_to has no "=" ends with the format error
\* before any device is touched: no assign request is sent and no log
\* entry about a device, simulated or real, is written, in a dry run as in
\* a real one, for any number of devices the safety check lets through.
Malformed ==
    /\ args.command = "assign"
    /\ args.assign_to # <<>>
    /\ ~has_eq(args.assign_to[1])

C19_MalformedAssign ==
    Malformed =>
        /\ MutatingCalls = <<>>
        /\ \A k \in 1..Len(log) : log[k].id = NoId
        /\ pc # "loop"
        /\ (pc = "done" /\ ~Tripped) =>
                log = <<Entry("invalid_assign_to_format", NoId)>>

\* A dry run of a malformed assign over several devices has ended with the
\* format error.
C19_Witness ==
    /\ Malformed
    /\ args.dry_run
    /\ Len(devices) > 1
    /\ pc = "done"
    /\ log = <<Entry("invalid_assign_to_format", NoId)>>

====
